---- MODULE Spec2Model ----
(***************************************************************************)
(* The voice-assistant component (VoiceAssistant) as a state machine.      *)
(*                                                                         *)
(* The component is a set of callbacks run by one event loop.  Every       *)
(* `await` of the source is a suspension point: the part of a callback up  *)
(* to an await is one action, its continuation another, and any other      *)
(* callback may run in between.  A startListening() invocation ("run") is  *)
(* numbered 1, 2, ...; the run owns the closure variables                  *)
(* currentInputTranscription / currentOutputTranscription, the microphone  *)
(* stream it obtains and the remote session it connects, all named by the  *)
(* run's number.  0 stands for null.                                       *)
(*                                                                         *)
(* The remote session (SDK + web socket) is the environment: it confirms   *)
(* the open (onopen, which also resolves the promise live.connect          *)
(* returned), delivers messages while the session has been opened and its  *)
(* close event has not been delivered, reports errors, and delivers one    *)
(* close event, also after a close() the component asked for.  A server    *)
(* message carries either a tool-call batch or server content; the fields  *)
(* of server content (transcription, turnComplete, audio) are handled one  *)
(* after the other by onmessage and are modelled as separate messages.     *)
(***************************************************************************)
EXTENDS Integers, Sequences, FiniteSets, TLC

\* ---------------------------------------------------------------- bounds
MaxStarts == 2          \* startListening invocations, lifecycle spec
MaxMsgStarts == 1       \* startListening invocations, message specs
MaxCalls == 1           \* function calls delivered
MaxFrames == 2          \* inbound audio frames
MaxSample == 50         \* samples are the multiples of 1 / MaxSample in [-1, 1]
MaxTodoCalls == 2       \* addTodo calls delivered, create-task spec
MaxPosition == 1        \* largest position of a subtask at the start
MaxSubtasks == 2        \* subtasks in the table at the start
MaxMixedCalls == 2      \* function calls delivered, mixed-message spec
MaxMixed == 1           \* transcript deltas and audio frames, mixed-message spec
MaxProjectCalls == 2    \* function calls delivered, create-project spec
MaxDur == 1             \* duration of a decoded audio buffer (clock units)
MaxTime == 1            \* audio clock ticks
MaxDeltas == 3          \* transcript deltas delivered
MaxTurnCompletes == 1   \* turn-complete signals delivered
MaxCaptures == 2        \* onaudioprocess events

Null == 0
Runs == 1..(IF MaxStarts > MaxMsgStarts THEN MaxStarts ELSE MaxMsgStarts)

Max(a, b) == IF a >= b THEN a ELSE b

VARIABLES
    \* React state and refs of the component
    ai,                 \* ai.current is set (API key present)
    isListening,
    statusMessage,
    conversation,       \* sequence of [speaker, text]; text is a sequence of characters
    sessionPromise,     \* sessionPromise.current: Null or the run whose connect made it
    streamRef,          \* streamRef.current: Null or the run whose getUserMedia made it
    mediaStreamSource,  \* mediaStreamSource.current: Null or the run whose onopen made it
    audioProcessorRef,  \* audioProcessorRef.current: Null or the run whose onopen made it
    inputAudioContext,  \* inputAudioContext.current is set
    outputAudioContext, \* outputAudioContext.current is set
    nextStartTime,
    sources,            \* sources.current: set of indices into playlist
    \* per run: position of startListening and the closure's accumulators
    startPc,
    currentInputTranscription,
    currentOutputTranscription,
    \* environment, per run
    session,            \* "none" | "connecting" | "open" | "closing" | "closed"
    resolved,           \* the promise of live.connect has resolved
    closeQueued,        \* then(session => session.close()) reactions waiting on the promise
    closeCalls,         \* session.close() calls made
    stream,             \* microphone stream: "none" | "live" | "stopped"
    trackStopCalls,     \* track.stop() calls made on the stream
    processor,          \* script processor node: "none" | "connected" | "disconnected"
    streamSource,       \* media stream source node: "none" | "connected" | "disconnected"
    \* playback
    currentTime,        \* outputAudioContext.currentTime
    playlist,           \* source.start() calls: [run, start, dur, at, state]
    frames,             \* audio-frame handlers: [run, dur, pc]
    \* tool calls
    batches,            \* onmessage handlers of tool-call batches
    calls,              \* handleToolCall invocations
    toolResponses,      \* sendToolResponse calls: [session, id]
    projects, subtasks, inserts,
    \* messages delivered so far (bounds the model)
    deltaCount, turnCompleteCount,
    \* capture loop
    captureCount,       \* onaudioprocess events so far (bounds the model)
    sendQueued,         \* per run: then(session => session.sendRealtimeInput(...))
                        \* reactions waiting on the promise
    sends,              \* sendRealtimeInput calls: [session, closed, listening]
    \* one sample through createBlob and decodeAudioData
    sample,             \* numerator of the sample, a multiple of 1 / MaxSample
    int16,              \* the signed 16-bit value createBlob stores
    base64,             \* the frame on the wire: the sextets of btoa
    channelData,        \* numerator of the decoded value, a multiple of 1 / 32768
    codecPc             \* "idle" | "sample" | "encoded" | "decoded"

compVars == <<isListening, statusMessage, sessionPromise, streamRef, mediaStreamSource,
              audioProcessorRef, nextStartTime, sources, session, resolved, closeQueued,
              closeCalls, stream, trackStopCalls, processor, streamSource, playlist,
              captureCount, sendQueued, sends>>
codecVars == <<sample, int16, base64, channelData, codecPc>>
ctxVars == <<ai, inputAudioContext, outputAudioContext>>
closureVars == <<currentInputTranscription, currentOutputTranscription>>
audioVars == <<currentTime, frames>>
toolVars == <<batches, calls, toolResponses, projects, subtasks, inserts>>
countVars == <<deltaCount, turnCompleteCount>>
vars == <<compVars, ctxVars, codecVars, conversation, startPc, closureVars, audioVars,
          toolVars, countVars>>

\* ------------------------------------------------------- component state
\* The refs, the listening flag and the objects they point to, as one record:
\* the handlers below are functions from this record to this record.
Comp ==
    [isListening |-> isListening, statusMessage |-> statusMessage,
     sessionPromise |-> sessionPromise, streamRef |-> streamRef,
     mediaStreamSource |-> mediaStreamSource, audioProcessorRef |-> audioProcessorRef,
     nextStartTime |-> nextStartTime, sources |-> sources,
     outputAudioContext |-> outputAudioContext, inputAudioContext |-> inputAudioContext,
     session |-> session, resolved |-> resolved, closeQueued |-> closeQueued,
     closeCalls |-> closeCalls, stream |-> stream, trackStopCalls |-> trackStopCalls,
     processor |-> processor, streamSource |-> streamSource, playlist |-> playlist,
     captureCount |-> captureCount, sendQueued |-> sendQueued, sends |-> sends]

SetComp(c) ==
    /\ isListening' = c.isListening
    /\ statusMessage' = c.statusMessage
    /\ sessionPromise' = c.sessionPromise
    /\ streamRef' = c.streamRef
    /\ mediaStreamSource' = c.mediaStreamSource
    /\ audioProcessorRef' = c.audioProcessorRef
    /\ nextStartTime' = c.nextStartTime
    /\ sources' = c.sources
    /\ session' = c.session
    /\ resolved' = c.resolved
    /\ closeQueued' = c.closeQueued
    /\ closeCalls' = c.closeCalls
    /\ stream' = c.stream
    /\ trackStopCalls' = c.trackStopCalls
    /\ processor' = c.processor
    /\ streamSource' = c.streamSource
    /\ playlist' = c.playlist
    /\ captureCount' = c.captureCount
    /\ sendQueued' = c.sendQueued
    /\ sends' = c.sends

\* The store the session starts with: one project.
NovaLaunch == <<"N", "o", "v", "a", " ", "L", "a", "u", "n", "c", "h">>
Nova == <<"n", "o", "v", "a">>
Zeta == <<"z", "e", "t", "a">>
DraftProposal == <<"D", "r", "a", "f", "t">>
Acme == <<"A", "c", "m", "e">>

InitialProjects == <<[id |-> 1, name |-> NovaLaunch, status |-> "In Progress"]>>

\* the component after construction, whatever the database holds
InitComponent ==
    /\ ai \in BOOLEAN
    /\ isListening = FALSE
    /\ statusMessage = IF ai THEN "Click microphone to start" ELSE "API Key missing"
    /\ conversation = <<>>
    /\ sessionPromise = Null
    /\ streamRef = Null
    /\ mediaStreamSource = Null
    /\ audioProcessorRef = Null
    /\ inputAudioContext = FALSE
    /\ outputAudioContext = FALSE
    /\ nextStartTime = 0
    /\ sources = {}
    /\ startPc = [r \in Runs |-> "idle"]
    /\ currentInputTranscription = [r \in Runs |-> <<>>]
    /\ currentOutputTranscription = [r \in Runs |-> <<>>]
    /\ session = [r \in Runs |-> "none"]
    /\ resolved = [r \in Runs |-> FALSE]
    /\ closeQueued = [r \in Runs |-> 0]
    /\ closeCalls = [r \in Runs |-> 0]
    /\ stream = [r \in Runs |-> "none"]
    /\ trackStopCalls = [r \in Runs |-> 0]
    /\ processor = [r \in Runs |-> "none"]
    /\ streamSource = [r \in Runs |-> "none"]
    /\ currentTime = 0
    /\ playlist = <<>>
    /\ frames = <<>>
    /\ batches = <<>>
    /\ calls = <<>>
    /\ toolResponses = <<>>
    /\ inserts = <<>>
    /\ deltaCount = 0
    /\ turnCompleteCount = 0
    /\ captureCount = 0
    /\ sendQueued = [r \in Runs |-> <<>>]
    /\ sends = <<>>
    /\ sample = 0
    /\ int16 = 0
    /\ base64 = <<>>
    /\ channelData = 0
    /\ codecPc = "idle"

Init ==
    /\ InitComponent
    /\ projects = InitialProjects
    /\ subtasks = <<>>

\* ---------------------------------------------------------- stopListening
\* sessionPromise.current?.then(session => session.close()).catch(...): the reaction
\* runs at once when the promise has resolved and waits on it otherwise.
closeSession(c) ==
    IF c.sessionPromise = Null THEN c
    ELSE LET s == c.sessionPromise IN
         IF c.resolved[s]
         THEN [c EXCEPT !.closeCalls[s] = @ + 1,
                        !.session[s] = IF @ = "open" THEN "closing" ELSE @]
         ELSE [c EXCEPT !.closeQueued[s] = @ + 1]

disconnectNodes(c) ==
    [c EXCEPT !.processor = [r \in Runs |->
                    IF r = c.audioProcessorRef THEN "disconnected" ELSE c.processor[r]],
              !.audioProcessorRef = Null,
              !.streamSource = [r \in Runs |->
                    IF r = c.mediaStreamSource THEN "disconnected" ELSE c.streamSource[r]],
              !.mediaStreamSource = Null]

\* the tracks are stopped and streamRef.current is left set
stopTracksKeepRef(c) ==
    [c EXCEPT !.stream = [r \in Runs |->
                    IF r = c.streamRef THEN "stopped" ELSE c.stream[r]],
              !.trackStopCalls = [r \in Runs |->
                    IF r = c.streamRef THEN c.trackStopCalls[r] + 1 ELSE c.trackStopCalls[r]]]

stopTracks(c) ==
    [c EXCEPT !.stream = [r \in Runs |->
                    IF r = c.streamRef THEN "stopped" ELSE c.stream[r]],
              !.trackStopCalls = [r \in Runs |->
                    IF r = c.streamRef THEN c.trackStopCalls[r] + 1 ELSE c.trackStopCalls[r]],
              !.streamRef = Null]

stopSources(c) ==
    IF ~c.outputAudioContext THEN c
    ELSE [c EXCEPT !.playlist = [k \in DOMAIN c.playlist |->
                        IF k \in c.sources /\ c.playlist[k].state = "playing"
                        THEN [c.playlist[k] EXCEPT !.state = "stopped"]
                        ELSE c.playlist[k]],
                   !.sources = {},
                   !.nextStartTime = 0]

stopListening(c) ==
    IF ~c.isListening /\ c.streamRef = Null THEN c
    ELSE LET c1 == [c EXCEPT !.statusMessage = "Click microphone to start"]
             c2 == [closeSession(c1) EXCEPT !.sessionPromise = Null]
             c3 == stopTracks(disconnectNodes(c2))
             c4 == stopSources(c3)
         IN [c4 EXCEPT !.isListening = FALSE]

\* toggleListening while listening, handleCloseModal, the unmount cleanup
StopListening ==
    /\ SetComp(stopListening(Comp))
    /\ UNCHANGED <<ctxVars, codecVars, conversation, startPc, closureVars, audioVars, toolVars,
                   countVars>>

\* stopListening when its best-effort calls fail.  session.close() runs in
\* a reaction of the promise, and its rejection goes to .catch(console.error);
\* source.stop() is wrapped in try / catch.  closeThrows: the close() call
\* throws and the session stays as it was; failing: the sources of the active
\* set whose stop() throws, which go on playing ("stopFailed").
closeSessionThrowing(c, closeThrows) ==
    IF ~closeThrows \/ c.sessionPromise = Null THEN closeSession(c)
    ELSE LET s == c.sessionPromise IN
         IF c.resolved[s] THEN [c EXCEPT !.closeCalls[s] = @ + 1] ELSE closeSession(c)

\* without the try / catch a stop() that throws ends the loop: the set is not
\* cleared and the cursor is not reset
stopSourcesAborting(c, failing) ==
    IF ~c.outputAudioContext THEN c
    ELSE IF failing \cap c.sources # {}
    THEN [c EXCEPT !.playlist = [k \in DOMAIN c.playlist |->
                        IF k \in c.sources /\ k \in failing /\ c.playlist[k].state = "playing"
                        THEN [c.playlist[k] EXCEPT !.state = "stopFailed"]
                        ELSE c.playlist[k]]]
    ELSE stopSources(c)

stopSourcesThrowing(c, failing) ==
    IF ~c.outputAudioContext THEN c
    ELSE [c EXCEPT !.playlist = [k \in DOMAIN c.playlist |->
                        IF k \in c.sources /\ c.playlist[k].state = "playing"
                        THEN [c.playlist[k] EXCEPT
                                 !.state = IF k \in failing THEN "stopFailed" ELSE "stopped"]
                        ELSE c.playlist[k]],
                   !.sources = {},
                   !.nextStartTime = 0]

stopListeningThrowing(c, closeThrows, failing) ==
    IF ~c.isListening /\ c.streamRef = Null THEN c
    ELSE LET c1 == [c EXCEPT !.statusMessage = "Click microphone to start"]
             c2 == [closeSessionThrowing(c1, closeThrows) EXCEPT !.sessionPromise = Null]
             c3 == stopTracks(disconnectNodes(c2))
             c4 == stopSourcesThrowing(c3, failing)
         IN [c4 EXCEPT !.isListening = FALSE]

StopListeningThrowing(closeThrows, failing) ==
    /\ closeThrows \/ failing # {}
    /\ failing \subseteq sources
    /\ SetComp(stopListeningThrowing(Comp, closeThrows, failing))
    /\ UNCHANGED <<ctxVars, codecVars, conversation, startPc, closureVars, audioVars, toolVars,
                   countVars>>

\* --------------------------------------------------------- startListening
NextRun(limit) ==
    IF \E r \in 1..limit : startPc[r] = "idle"
    THEN CHOOSE r \in 1..limit : startPc[r] = "idle" /\ \A q \in 1..(r - 1) : startPc[q] # "idle"
    ELSE Null

\* toggleListening while not listening.  ctx is what the audio contexts do:
\* "running", "inSuspended" / "outSuspended" (resume() awaited), "throws".
startListening(limit, ctxOutcomes) ==
    /\ ~isListening
    /\ IF ~ai
       THEN UNCHANGED vars
       ELSE /\ NextRun(limit) # Null
            /\ LET r == NextRun(limit) IN
               \E ctx \in ctxOutcomes :
                 /\ conversation' = <<>>
                 /\ currentInputTranscription' = [currentInputTranscription EXCEPT ![r] = <<>>]
                 /\ currentOutputTranscription' = [currentOutputTranscription EXCEPT ![r] = <<>>]
                 /\ IF ctx = "throws"
                    THEN /\ isListening' = FALSE
                         /\ statusMessage' = "Audio Error"
                         /\ startPc' = [startPc EXCEPT ![r] = "returned"]
                         /\ UNCHANGED <<inputAudioContext, outputAudioContext>>
                    ELSE /\ isListening' = TRUE
                         /\ statusMessage' = "Connecting..."
                         /\ inputAudioContext' = TRUE
                         /\ outputAudioContext' = TRUE
                         /\ startPc' = [startPc EXCEPT ![r] =
                                CASE ctx = "inSuspended" -> "resumeInput"
                                  [] ctx = "outSuspended" -> "resumeOutput"
                                  [] OTHER -> "getUserMedia"]
                 /\ UNCHANGED <<ai, sessionPromise, streamRef, mediaStreamSource,
                                audioProcessorRef, nextStartTime, sources, session, resolved,
                                closeQueued, closeCalls, stream, trackStopCalls, processor,
                                streamSource, playlist, audioVars, toolVars, countVars,
                                captureCount, sendQueued, sends, codecVars>>

CtxOutcomes == {"running", "inSuspended", "outSuspended", "throws"}

StartListening == startListening(MaxStarts, CtxOutcomes)

\* await inputAudioContext.resume() / outputAudioContext.resume() returns
AudioResumed(r) ==
    /\ startPc[r] \in {"resumeInput", "resumeOutput"}
    /\ \E next \in (IF startPc[r] = "resumeInput" THEN {"resumeOutput", "getUserMedia"}
                    ELSE {"getUserMedia"}) :
         startPc' = [startPc EXCEPT ![r] = next]
    /\ UNCHANGED <<compVars, ctxVars, codecVars, conversation, closureVars, audioVars, toolVars,
                   countVars>>

\* resume() rejects: catch of the first try block
AudioFailed(r) ==
    /\ startPc[r] \in {"resumeInput", "resumeOutput"}
    /\ startPc' = [startPc EXCEPT ![r] = "returned"]
    /\ SetComp([Comp EXCEPT !.statusMessage = "Audio Error", !.isListening = FALSE])
    /\ UNCHANGED <<ctxVars, codecVars, conversation, closureVars, audioVars, toolVars, countVars>>

\* getUserMedia resolves: the stream is stored and live.connect is called
connect(c, r) ==
    [c EXCEPT !.streamRef = r, !.stream[r] = "live",
              !.sessionPromise = r, !.session[r] = "connecting"]

MicGranted(r) ==
    /\ startPc[r] = "getUserMedia"
    /\ startPc' = [startPc EXCEPT ![r] = "returned"]
    /\ SetComp(connect(Comp, r))
    /\ UNCHANGED <<ctxVars, codecVars, conversation, closureVars, audioVars, toolVars, countVars>>

\* getUserMedia rejects: catch of the second try block
MicDenied(r) ==
    /\ startPc[r] = "getUserMedia"
    /\ startPc' = [startPc EXCEPT ![r] = "returned"]
    /\ SetComp([Comp EXCEPT !.statusMessage = "Microphone blocked", !.isListening = FALSE])
    /\ UNCHANGED <<ctxVars, codecVars, conversation, closureVars, audioVars, toolVars, countVars>>

\* ------------------------------------------------- callbacks of a session
\* onopen without its guard on streamRef.current
onopenUnguarded(c, r) ==
    LET c1 == [c EXCEPT !.statusMessage = "Listening..."] IN
    IF ~c1.inputAudioContext THEN c1
    ELSE [c1 EXCEPT !.mediaStreamSource = r, !.streamSource[r] = "connected",
                    !.audioProcessorRef = r, !.processor[r] = "connected"]

onopen(c, r) ==
    LET c1 == [c EXCEPT !.statusMessage = "Listening..."] IN
    IF ~c1.inputAudioContext \/ c1.streamRef = Null THEN c1
    ELSE [c1 EXCEPT !.mediaStreamSource = r, !.streamSource[r] = "connected",
                    !.audioProcessorRef = r, !.processor[r] = "connected"]

\* the promise of live.connect resolves: the reactions waiting on it run in the
\* order they were added.  A send reaction is added only while sessionPromise
\* refers to the promise and a close reaction is added by the stopListening that
\* clears that reference, so the sends come first.
resolvePromise(c, r) ==
    LET c1 == [c EXCEPT !.resolved[r] = TRUE, !.session[r] = "open",
                        !.sends = @ \o [k \in DOMAIN c.sendQueued[r] |->
                                          [session |-> r, closed |-> c.closeCalls[r] > 0,
                                           listening |-> c.sendQueued[r][k].listening]],
                        !.sendQueued[r] = <<>>] IN
    IF c.closeQueued[r] = 0 THEN c1
    ELSE [c1 EXCEPT !.closeCalls[r] = @ + c.closeQueued[r], !.closeQueued[r] = 0,
                    !.session[r] = "closing"]

\* the remote side confirms the open
OnOpen(r) ==
    /\ session[r] = "connecting"
    /\ SetComp(resolvePromise(onopen(Comp, r), r))
    /\ UNCHANGED <<ctxVars, codecVars, conversation, startPc, closureVars, audioVars, toolVars,
                   countVars>>

\* the connection of run r fails: callbacks.onerror; its close event follows
OnError(r) ==
    /\ session[r] \in {"connecting", "open"}
    /\ SetComp(stopListening([Comp EXCEPT !.statusMessage = "Connection Error",
                                          !.session[r] = "closing"]))
    /\ UNCHANGED <<ctxVars, codecVars, conversation, startPc, closureVars, audioVars, toolVars,
                   countVars>>

\* the close event of run r's connection: callbacks.onclose
OnClose(r) ==
    /\ session[r] \in {"connecting", "open", "closing"}
    /\ SetComp(stopListening([Comp EXCEPT !.session[r] = "closed"]))
    /\ UNCHANGED <<ctxVars, codecVars, conversation, startPc, closureVars, audioVars, toolVars,
                   countVars>>

\* An inbound message of run r's session reaches onmessage: the session has been
\* opened and its close event has not been delivered.
Delivering(r) == resolved[r] /\ session[r] \in {"open", "closing"}

\* --------------------------------------------- onmessage: transcription
Last(q) == q[Len(q)]

\* The closure's accumulators and the transcript, as onmessage sees them.
Transcript(r) ==
    [conversation |-> conversation,
     input |-> currentInputTranscription[r],
     output |-> currentOutputTranscription[r]]

\* setConversation(prev => ...) of both transcription branches
mergeTurn(prev, speaker, accumulated) ==
    IF Len(prev) > 0 /\ Last(prev).speaker = speaker
    THEN [prev EXCEPT ![Len(prev)].text = accumulated]
    ELSE Append(prev, [speaker |-> speaker, text |-> accumulated])

\* message.serverContent.inputTranscription ("user") / outputTranscription ("model")
onTranscription(t, speaker, text) ==
    IF speaker = "user"
    THEN LET acc == t.input \o text IN
         [t EXCEPT !.input = acc, !.conversation = mergeTurn(t.conversation, "user", acc)]
    ELSE LET acc == t.output \o text IN
         [t EXCEPT !.output = acc, !.conversation = mergeTurn(t.conversation, "model", acc)]

\* message.serverContent.turnComplete
onTurnComplete(t) == [t EXCEPT !.input = <<>>, !.output = <<>>]

SetTranscript(r, t) ==
    /\ conversation' = t.conversation
    /\ currentInputTranscription' = [currentInputTranscription EXCEPT ![r] = t.input]
    /\ currentOutputTranscription' = [currentOutputTranscription EXCEPT ![r] = t.output]

Deltas == {<<"a">>, <<"b">>}
Speakers == {"user", "model"}

TranscriptionUpTo(r, speaker, text, limit) ==
    /\ Delivering(r)
    /\ deltaCount < limit
    /\ deltaCount' = deltaCount + 1
    /\ SetTranscript(r, onTranscription(Transcript(r), speaker, text))
    /\ UNCHANGED <<compVars, ctxVars, codecVars, startPc, audioVars, toolVars, turnCompleteCount>>

TranscriptionMessage(r, speaker, text) == TranscriptionUpTo(r, speaker, text, MaxDeltas)

TurnCompleteMessage(r) ==
    /\ Delivering(r)
    /\ turnCompleteCount < MaxTurnCompletes
    /\ turnCompleteCount' = turnCompleteCount + 1
    /\ SetTranscript(r, onTurnComplete(Transcript(r)))
    /\ UNCHANGED <<compVars, ctxVars, codecVars, startPc, audioVars, toolVars, deltaCount>>

\* ------------------------------------------------ onmessage: audio frame
\* the audio branch if it waited for the pending function calls to finish
AudioFrameAfterCalls(r, dur, limit) ==
    /\ Delivering(r)
    /\ \A id \in DOMAIN calls : calls[id].pc \in {"done", "dropped"}
    /\ Len(frames) < limit
    /\ frames' = Append(frames, [run |-> r, dur |-> dur, pc |-> "decoding"])
    /\ SetComp([Comp EXCEPT !.nextStartTime = Max(nextStartTime, currentTime)])
    /\ UNCHANGED <<ctxVars, codecVars, conversation, startPc, closureVars, currentTime, toolVars,
                   countVars>>

\* up to the await of decodeAudioData
AudioFrameUpTo(r, dur, limit) ==
    /\ Delivering(r)
    /\ Len(frames) < limit
    /\ frames' = Append(frames, [run |-> r, dur |-> dur, pc |-> "decoding"])
    /\ SetComp([Comp EXCEPT !.nextStartTime = Max(nextStartTime, currentTime)])
    /\ UNCHANGED <<ctxVars, codecVars, conversation, startPc, closureVars, currentTime, toolVars,
                   countVars>>

AudioFrameMessage(r, dur) == AudioFrameUpTo(r, dur, MaxFrames)

\* the source is started and never registered in sources.current
scheduleSourceUnregistered(c, run, dur, now) ==
    [c EXCEPT !.playlist = Append(@, [run |-> run, start |-> c.nextStartTime, dur |-> dur,
                                       at |-> now, state |-> "playing"]),
              !.nextStartTime = @ + dur]

\* after the await: the source is created, started at the cursor and registered
scheduleSource(c, run, dur, now) ==
    [c EXCEPT !.playlist = Append(@, [run |-> run, start |-> c.nextStartTime, dur |-> dur,
                                       at |-> now, state |-> "playing"]),
              !.nextStartTime = @ + dur,
              !.sources = @ \cup {Len(c.playlist) + 1}]

DecodeDone(f) ==
    /\ f \in DOMAIN frames
    /\ frames[f].pc = "decoding"
    /\ frames' = [frames EXCEPT ![f].pc = "done"]
    /\ SetComp(scheduleSource(Comp, frames[f].run, frames[f].dur, currentTime))
    /\ UNCHANGED <<ctxVars, codecVars, conversation, startPc, closureVars, currentTime, toolVars,
                   countVars>>

\* A source started at or after the clock plays from its start time; one
\* started in the past plays from the time of the source.start() call.
EndOf(src) == Max(src.start, src.at) + src.dur

\* the 'ended' event of a source: playback reached its end, or it was stopped
SourceEnded(k) ==
    /\ k \in DOMAIN playlist
    /\ \/ playlist[k].state \in {"playing", "stopFailed"} /\ currentTime >= EndOf(playlist[k])
       \/ playlist[k].state = "stopped"
    /\ SetComp([Comp EXCEPT !.playlist[k].state = "ended", !.sources = @ \ {k}])
    /\ UNCHANGED <<ctxVars, codecVars, conversation, startPc, closureVars, audioVars, toolVars,
                   countVars>>

\* the audio clock advances
Tick ==
    /\ outputAudioContext
    /\ currentTime < MaxTime
    /\ currentTime' = currentTime + 1
    /\ UNCHANGED <<compVars, ctxVars, codecVars, conversation, startPc, closureVars, frames,
                   toolVars,
                   countVars>>

\* ------------------------------------------------- onmessage: tool calls
\* Text is a sequence of characters; a message built from a template is the
\* sequence of its literal parts and its arguments' characters.
Lower(ch) ==
    CASE ch = "N" -> "n" [] ch = "L" -> "l" [] ch = "D" -> "d" [] ch = "A" -> "a"
      [] OTHER -> ch

LowerText(t) == [i \in DOMAIN t |-> Lower(t[i])]

\* name ILIKE %pattern%
ilike(name, pattern) ==
    \E i \in 0..(Len(name) - Len(pattern)) :
        SubSeq(LowerText(name), i + 1, i + Len(pattern)) = LowerText(pattern)

\* The function calls the remote model sends: [name, text, project_name]; text
\* is args.name, args.description or args.text.
FunctionCalls ==
    {[name |-> "addProject", text |-> Acme, project_name |-> <<>>],
     [name |-> "addTodo", text |-> DraftProposal, project_name |-> Nova],
     [name |-> "addTodo", text |-> DraftProposal, project_name |-> Zeta],
     [name |-> "removeProject", text |-> Acme, project_name |-> <<>>]}

\* enum ProjectStatus
ProjectStatus == [Todo |-> "To Do", InProgress |-> "In Progress", Done |-> "Done"]

\* args.status of a function call; the declared parameters of addProject have no
\* status, but the arguments are whatever object the remote model sends
Undefined == "undefined"
ArgStatus(fc) == IF "status" \in DOMAIN fc THEN fc.status ELSE Undefined

\* What handleToolCall reads and writes.
Handler ==
    [conversation |-> conversation, calls |-> calls, toolResponses |-> toolResponses,
     projects |-> projects, subtasks |-> subtasks, inserts |-> inserts]

SetHandler(h) ==
    /\ conversation' = h.conversation
    /\ calls' = h.calls
    /\ toolResponses' = h.toolResponses
    /\ projects' = h.projects
    /\ subtasks' = h.subtasks
    /\ inserts' = h.inserts

\* addConversationTurn('system', text) made by the handler of call id
addConversationTurn(h, id, text) ==
    [h EXCEPT !.conversation = Append(@, [speaker |-> "system", text |-> text]),
              !.calls[id].turns = @ + 1]

\* after the try/catch: the outcome is shown and sent back
sendResult(h, id, result) ==
    LET h1 == addConversationTurn(h, id, result) IN
    [h1 EXCEPT !.toolResponses = Append(@, [session |-> h.calls[id].session, id |-> id,
                                             result |-> result]),
               !.calls[id].pc = "done"]

Quoted(t) == <<"\"">> \o t \o <<"\"">>

\* handleToolCall without the "Executing" line it shows first
handleToolCallSilent(h, id, sess) ==
    LET fc == h.calls[id]
        h1 == [h EXCEPT !.calls[id].session = sess]
    IN CASE fc.name \in {"addProject", "addSkill", "addTransaction"} ->
                [h1 EXCEPT !.calls[id].pc = "insert"]
         [] fc.name = "addTodo" ->
                [h1 EXCEPT !.calls[id].pc = "selectProject"]
         [] OTHER ->
                sendResult(h1, id, <<"Function ", fc.name, " not found.">>)

\* handleToolCall whose default case throws instead of setting an outcome
handleToolCallThrows(h, id, sess) ==
    LET fc == h.calls[id]
        h1 == addConversationTurn([h EXCEPT !.calls[id].session = sess], id,
                                  <<"Executing: ", fc.name, "...">>)
    IN CASE fc.name \in {"addProject", "addSkill", "addTransaction"} ->
                [h1 EXCEPT !.calls[id].pc = "insert"]
         [] fc.name = "addTodo" ->
                [h1 EXCEPT !.calls[id].pc = "selectProject"]
         [] OTHER ->
                sendResult(h1, id, <<"Error: ", "e.message">>)

\* handleToolCall(fc, session) up to its first await
handleToolCall(h, id, sess) ==
    LET fc == h.calls[id]
        h1 == addConversationTurn([h EXCEPT !.calls[id].session = sess], id,
                                  <<"Executing: ", fc.name, "...">>)
    IN CASE fc.name \in {"addProject", "addSkill", "addTransaction"} ->
                [h1 EXCEPT !.calls[id].pc = "insert"]
         [] fc.name = "addTodo" ->
                [h1 EXCEPT !.calls[id].pc = "selectProject"]
         [] OTHER ->
                sendResult(h1, id, <<"Function ", fc.name, " not found.">>)

caught(h, id) == sendResult(h, id, <<"Error: ", "e.message">>)

TableOf(name) ==
    CASE name = "addProject" -> "projects" [] name = "addSkill" -> "skills"
      [] OTHER -> "transactions"

SuccessText(fc) ==
    CASE fc.name = "addProject" -> <<"Project ">> \o Quoted(fc.text) \o <<" added successfully.">>
      [] fc.name = "addSkill" -> <<"Skill ">> \o Quoted(fc.text) \o <<" added successfully.">>
      [] OTHER -> <<"Transaction ">> \o Quoted(fc.text) \o <<" logged.">>

\* {status: ProjectStatus.Todo, ...fc.args}: a status among the arguments wins
newProjectArgsLast(fc) ==
    [name |-> fc.text,
     status |-> IF fc.status = Undefined THEN ProjectStatus.Todo ELSE fc.status]

\* const newProject = {...fc.args, status: ProjectStatus.Todo}
newProject(fc) ==
    [[name |-> fc.text, status |-> fc.status] EXCEPT !.status = ProjectStatus.Todo]

\* await supabase.from(table).insert(row) of addProject / addSkill / addTransaction:
\* "ok" stores the row, "rejected" returns an error result, "throws" throws
insertReturns(h, id, outcome) ==
    LET fc == h.calls[id]
        stored == IF outcome # "ok" THEN h
                  ELSE IF fc.name = "addProject"
                  THEN [h EXCEPT !.projects = Append(@, [id |-> Len(h.projects) + 1]
                                                          @@ newProject(fc))]
                  ELSE [h EXCEPT !.inserts = Append(@, [table |-> TableOf(fc.name),
                                                         name |-> fc.text])]
    IN IF outcome = "throws" THEN caught(h, id)
       ELSE sendResult(stored, id, SuccessText(fc))

\* the select of the project without the check of its result: the handler goes on
\* to the subtasks with whatever id it got
selectProjectReturnsUnchecked(h, id, outcome) ==
    LET fc == h.calls[id]
        matching == {i \in DOMAIN h.projects : ilike(h.projects[i].name, fc.project_name)}
    IN IF outcome = "throws" THEN caught(h, id)
       ELSE [h EXCEPT !.calls[id].pc = "selectSubtasks",
                      !.calls[id].projectId =
                          IF outcome = "rejected" \/ Cardinality(matching) # 1 THEN Null
                          ELSE h.projects[CHOOSE i \in matching : TRUE].id]

\* await ...from('projects').select('id').ilike('name', `%${project_name}%`).single():
\* single() gives the row when exactly one matches and an error otherwise
selectProjectReturns(h, id, outcome) ==
    LET fc == h.calls[id]
        matching == {i \in DOMAIN h.projects : ilike(h.projects[i].name, fc.project_name)}
    IN IF outcome = "throws" THEN caught(h, id)
       ELSE IF outcome = "rejected" \/ Cardinality(matching) # 1
       THEN sendResult(h, id, <<"Could not find project ">> \o Quoted(fc.project_name)
                                \o <<".">>)
       ELSE [h EXCEPT !.calls[id].pc = "selectSubtasks",
                      !.calls[id].projectId = h.projects[CHOOSE i \in matching : TRUE].id]

\* await ...from('subtasks').select('position').eq('project_id', projectId)
\*       .order('position', {ascending: false}).limit(1)
selectSubtasksReturns(h, id, outcome) ==
    LET fc == h.calls[id]
        positions == {h.subtasks[i].position : i \in
                        {j \in DOMAIN h.subtasks : h.subtasks[j].project_id = fc.projectId}}
        newPosition == IF outcome = "rejected" \/ positions = {} THEN 0
                       ELSE (CHOOSE m \in positions : \A q \in positions : q <= m) + 1
    IN IF outcome = "throws" THEN caught(h, id)
       ELSE [h EXCEPT !.calls[id].pc = "insertSubtask", !.calls[id].position = newPosition]

\* await supabase.from('subtasks').insert(newSubtask)
insertSubtaskReturns(h, id, outcome) ==
    LET fc == h.calls[id]
        stored == IF outcome # "ok" THEN h
                  ELSE [h EXCEPT !.subtasks = Append(@, [name |-> fc.text,
                                      status |-> "Not Started", project_id |-> fc.projectId,
                                      position |-> fc.position])]
    IN IF outcome = "throws" THEN caught(h, id)
       ELSE sendResult(stored, id, <<"Task ">> \o Quoted(fc.text) \o <<" added to ">>
                                     \o Quoted(fc.project_name) \o <<".">>)

\* a tool-call batch reaches onmessage: up to `await sessionPromise.current`
ToolCallBatch(r, fcs, limit) ==
    /\ Delivering(r)
    /\ Len(calls) + Len(fcs) <= limit
    /\ calls' = calls \o [i \in DOMAIN fcs |->
                    [name |-> fcs[i].name, text |-> fcs[i].text,
                     project_name |-> fcs[i].project_name, status |-> ArgStatus(fcs[i]),
                     pc |-> "delivered",
                     session |-> Null, turns |-> 0, projectId |-> Null, position |-> 0]]
    /\ batches' = Append(batches, [run |-> r, awaited |-> sessionPromise,
                                   ids |-> [i \in DOMAIN fcs |-> Len(calls) + i],
                                   pc |-> "awaitSession"])
    /\ UNCHANGED <<compVars, ctxVars, codecVars, conversation, startPc, closureVars, audioVars,
                   toolResponses, projects, subtasks, inserts, countVars>>

ToolCallMessage(r, fcs) == ToolCallBatch(r, fcs, MaxCalls)

RECURSIVE handleAll(_, _, _)
handleAll(h, ids, sess) ==
    IF ids = <<>> THEN h
    ELSE handleAll(handleToolCall(h, ids[1], sess), Tail(ids), sess)

dropAll(h, ids) ==
    [h EXCEPT !.calls = [i \in DOMAIN h.calls |->
        IF \E k \in DOMAIN ids : ids[k] = i THEN [h.calls[i] EXCEPT !.pc = "dropped"]
        ELSE h.calls[i]]]

\* the await returns: if (session) for (const fc of functionCalls) handleToolCall(fc, session)
resumeBatch(h, b) ==
    IF b.awaited = Null THEN dropAll(h, b.ids) ELSE handleAll(h, b.ids, b.awaited)

BatchResumes(b) ==
    /\ b \in DOMAIN batches
    /\ batches[b].pc = "awaitSession"
    /\ batches[b].awaited # Null => resolved[batches[b].awaited]
    /\ batches' = [batches EXCEPT ![b].pc = "done"]
    /\ SetHandler(resumeBatch(Handler, batches[b]))
    /\ UNCHANGED <<compVars, ctxVars, codecVars, startPc, closureVars, audioVars, countVars>>

dbReturns(h, id, outcome) ==
    CASE h.calls[id].pc = "insert" -> insertReturns(h, id, outcome)
      [] h.calls[id].pc = "selectProject" -> selectProjectReturns(h, id, outcome)
      [] h.calls[id].pc = "selectSubtasks" -> selectSubtasksReturns(h, id, outcome)
      [] h.calls[id].pc = "insertSubtask" -> insertSubtaskReturns(h, id, outcome)

DbOutcomes == {"ok", "rejected", "throws"}

\* the handler's continuation if it tore the session down once it has an outcome
DbReturnsStops(id, outcome) ==
    /\ id \in DOMAIN calls
    /\ calls[id].pc \in {"insert", "selectProject", "selectSubtasks", "insertSubtask"}
    /\ SetHandler(dbReturns(Handler, id, outcome))
    /\ IF dbReturns(Handler, id, outcome).calls[id].pc = "done"
       THEN SetComp(stopListening(Comp))
       ELSE UNCHANGED compVars
    /\ UNCHANGED <<ctxVars, codecVars, startPc, closureVars, audioVars, batches, countVars>>

\* the database call a handler awaits returns
DbReturns(id, outcome) ==
    /\ id \in DOMAIN calls
    /\ calls[id].pc \in {"insert", "selectProject", "selectSubtasks", "insertSubtask"}
    /\ SetHandler(dbReturns(Handler, id, outcome))
    /\ UNCHANGED <<compVars, ctxVars, codecVars, startPc, closureVars, audioVars, batches,
                   countVars>>

\* ------------------------------------------------------- lifecycle alone
Next ==
    \/ StartListening
    \/ StopListening
    \/ \E r \in 1..MaxStarts : AudioResumed(r)
    \/ \E r \in 1..MaxStarts : AudioFailed(r)
    \/ \E r \in 1..MaxStarts : MicGranted(r)
    \/ \E r \in 1..MaxStarts : MicDenied(r)
    \/ \E r \in 1..MaxStarts : OnOpen(r)
    \/ \E r \in 1..MaxStarts : OnError(r)
    \/ \E r \in 1..MaxStarts : OnClose(r)

Spec == Init /\ [][Next]_vars

\* ------------------------- a session receiving transcription and audio
\* The message specifications leave out the failures of start (audio context,
\* microphone) and the remote error: the session is started, opened, stopped
\* and closed.
MsgRuns == 1..MaxMsgStarts

StartListeningMsg == startListening(MaxMsgStarts, {"running"})

NextTranscript ==
    \/ StartListeningMsg
    \/ StopListening
    \/ \E r \in MsgRuns : MicGranted(r)
    \/ \E r \in MsgRuns : OnOpen(r)
    \/ \E r \in MsgRuns : OnClose(r)
    \/ \E r \in MsgRuns, p \in Speakers, d \in Deltas : TranscriptionMessage(r, p, d)
    \/ \E r \in MsgRuns : TurnCompleteMessage(r)

SpecTranscript == Init /\ [][NextTranscript]_vars

NextAudio ==
    \/ StartListeningMsg
    \/ StopListening
    \/ \E r \in MsgRuns : MicGranted(r)
    \/ \E r \in MsgRuns : OnOpen(r)
    \/ \E r \in MsgRuns : OnClose(r)
    \/ \E r \in MsgRuns, d \in 1..MaxDur : AudioFrameMessage(r, d)
    \/ \E f \in 1..MaxFrames : DecodeDone(f)
    \/ \E k \in 1..MaxFrames : SourceEnded(k)
    \/ Tick

SpecAudio == Init /\ [][NextAudio]_vars

\* ------------------------------------------- a session receiving tool calls
Batches == UNION {[1..n -> FunctionCalls] : n \in 1..MaxCalls}

NextTool ==
    \/ StartListeningMsg
    \/ StopListening
    \/ \E r \in MsgRuns : MicGranted(r)
    \/ \E r \in MsgRuns : OnOpen(r)
    \/ \E r \in MsgRuns : OnClose(r)
    \/ \E r \in MsgRuns, fcs \in Batches : ToolCallMessage(r, fcs)
    \/ \E b \in 1..MaxCalls : BatchResumes(b)
    \/ \E id \in 1..MaxCalls, outcome \in DbOutcomes : DbReturns(id, outcome)

SpecTool == Init /\ [][NextTool]_vars

\* ------------------------------------------------ create-task on a database
\* A session receives addTodo calls while the database holds two projects
\* whose names both contain "nova" and some subtasks.
NovaLabs == <<"N", "o", "v", "a", " ", "L", "a", "b", "s">>
Launch == <<"l", "a", "u", "n", "c", "h">>
Labs == <<"l", "a", "b", "s">>

TodoProjects ==
    <<[id |-> 1, name |-> NovaLaunch, status |-> "In Progress"],
      [id |-> 2, name |-> NovaLabs, status |-> "To Do"]>>

SubtaskRows ==
    [name : {DraftProposal}, status : {"Not Started"},
     project_id : {TodoProjects[i].id : i \in DOMAIN TodoProjects},
     position : 0..MaxPosition]

\* the subtasks table at the start: the positions of a project's subtasks differ
SubtaskTables ==
    {t \in UNION {[1..n -> SubtaskRows] : n \in 0..MaxSubtasks} :
        \A i, j \in DOMAIN t :
            (i # j /\ t[i].project_id = t[j].project_id) => t[i].position # t[j].position}

TodoCalls ==
    {[name |-> "addTodo", text |-> DraftProposal, project_name |-> pn] :
        pn \in {Launch, Labs, Nova}}

TodoBatches == UNION {[1..n -> TodoCalls] : n \in 1..MaxTodoCalls}

InitTodo ==
    /\ InitComponent
    /\ projects = TodoProjects
    /\ subtasks \in SubtaskTables

NextTodo ==
    \/ StartListeningMsg
    \/ \E r \in MsgRuns : MicGranted(r)
    \/ \E r \in MsgRuns : OnOpen(r)
    \/ \E r \in MsgRuns, fcs \in TodoBatches : ToolCallBatch(r, fcs, MaxTodoCalls)
    \/ \E b \in 1..MaxTodoCalls : BatchResumes(b)
    \/ \E id \in 1..MaxTodoCalls, outcome \in DbOutcomes : DbReturns(id, outcome)

SpecTodo == InitTodo /\ [][NextTodo]_vars

\* ------------------------------------------------------ the capture loop
\* scriptProcessor.onaudioprocess of run r:
\*   sessionPromise.current?.then(session => session.sendRealtimeInput({media: pcmBlob}))
\* The reaction runs at once when the promise has resolved and waits on it
\* otherwise; with sessionPromise.current null the frame is dropped.
onaudioprocess(c, r) ==
    LET c1 == [c EXCEPT !.captureCount = @ + 1]
        s == c.sessionPromise
    IN IF s = Null THEN c1
       ELSE IF c.resolved[s]
       THEN [c1 EXCEPT !.sends = Append(@, [session |-> s,
                                            closed |-> \/ c.closeCalls[s] > 0
                                                       \/ c.session[s] \in {"closing", "closed"},
                                            listening |-> c.isListening])]
       ELSE [c1 EXCEPT !.sendQueued[s] = Append(@, [listening |-> c.isListening])]

\* The audio thread hands a buffer to the processor of run r.  A processor
\* that was disconnected may still deliver the event it had queued.
AudioProcess(r) ==
    /\ processor[r] \in {"connected", "disconnected"}
    /\ captureCount < MaxCaptures
    /\ SetComp(onaudioprocess(Comp, r))
    /\ UNCHANGED <<ctxVars, codecVars, conversation, startPc, closureVars, audioVars, toolVars,
                   countVars>>

\* the lifecycle with the capture loop running
NextCapture ==
    \/ StartListening
    \/ StopListening
    \/ \E r \in 1..MaxStarts : AudioResumed(r)
    \/ \E r \in 1..MaxStarts : AudioFailed(r)
    \/ \E r \in 1..MaxStarts : MicGranted(r)
    \/ \E r \in 1..MaxStarts : MicDenied(r)
    \/ \E r \in 1..MaxStarts : OnOpen(r)
    \/ \E r \in 1..MaxStarts : OnError(r)
    \/ \E r \in 1..MaxStarts : OnClose(r)
    \/ \E r \in 1..MaxStarts : AudioProcess(r)

SpecCapture == Init /\ [][NextCapture]_vars

\* ------------------------------------------- playback until the sources end
\* The time the last source of the active set ends at.
RECURSIVE LatestEnd(_, _)
LatestEnd(pl, set) ==
    IF pl = <<>> THEN 0
    ELSE LET k == Len(pl)
             rest == LatestEnd(SubSeq(pl, 1, k - 1), set)
         IN IF k \in set /\ pl[k].state = "playing" THEN Max(EndOf(pl[k]), rest) ELSE rest

\* the audio clock advances for as long as a source is to be played
PlaybackTick ==
    /\ outputAudioContext
    /\ currentTime < Max(MaxTime, LatestEnd(playlist, sources))
    /\ currentTime' = currentTime + 1
    /\ UNCHANGED <<compVars, ctxVars, codecVars, conversation, startPc, closureVars, frames,
                   toolVars, countVars>>

\* One session, from its start to the end of its last source: the active set
\* and the clock belong to the component, and a frame is scheduled in the
\* same way whichever session delivers it.  Every buffer lasts MaxDur.
StartListeningOnce == startListening(1, {"running"})

NextPlayback ==
    \/ StartListeningOnce
    \/ StopListening
    \/ MicGranted(1)
    \/ OnOpen(1)
    \/ OnClose(1)
    \/ AudioFrameMessage(1, MaxDur)
    \/ \E f \in 1..MaxFrames : DecodeDone(f)
    \/ \E k \in 1..MaxFrames : SourceEnded(k)
    \/ PlaybackTick

\* The output context is never suspended or closed by the component: its
\* clock runs and the 'ended' event of every source is dispatched.
SpecPlayback ==
    /\ Init /\ [][NextPlayback]_vars
    /\ WF_vars(PlaybackTick)
    /\ \A k \in 1..MaxFrames : WF_vars(SourceEnded(k))

\* ------------------------------------ teardown with failing close and stop
NextStop ==
    \/ NextPlayback
    \/ \E closeThrows \in BOOLEAN, failing \in SUBSET (1..MaxFrames) :
          StopListeningThrowing(closeThrows, failing)

SpecStop == Init /\ [][NextStop]_vars

\* ------------------------- one session receiving every kind of message
\* Tool calls, transcript deltas and audio frames reach the one session in
\* any order: addProject calls, deltas "a" of the user, buffers of MaxDur.
MixedCalls == {fc \in FunctionCalls : fc.name = "addProject"}
MixedBatches == UNION {[1..n -> MixedCalls] : n \in 1..MaxMixedCalls}

NextMixed ==
    \/ StartListeningOnce
    \/ MicGranted(1)
    \/ OnOpen(1)
    \/ \E fcs \in MixedBatches : ToolCallBatch(1, fcs, MaxMixedCalls)
    \/ \E b \in 1..MaxMixedCalls : BatchResumes(b)
    \/ \E id \in 1..MaxMixedCalls, outcome \in DbOutcomes : DbReturns(id, outcome)
    \/ TranscriptionUpTo(1, "user", <<"a">>, MaxMixed)
    \/ AudioFrameUpTo(1, MaxDur, MaxMixed)
    \/ \E f \in 1..MaxMixed : DecodeDone(f)

SpecMixed == Init /\ [][NextMixed]_vars

\* ------------------------------------- sessions started one after another
\* Up to MaxStarts sessions, each receiving tool calls and transcript deltas.
StartListeningAgain == startListening(MaxStarts, {"running"})

NextRestart ==
    \/ StartListeningAgain
    \/ StopListening
    \/ \E r \in Runs : MicGranted(r)
    \/ \E r \in Runs : OnOpen(r)
    \/ \E r \in Runs : OnClose(r)
    \/ \E r \in Runs, fcs \in Batches : ToolCallMessage(r, fcs)
    \/ \E b \in 1..MaxCalls : BatchResumes(b)
    \/ \E id \in 1..MaxCalls, outcome \in DbOutcomes : DbReturns(id, outcome)
    \/ \E r \in Runs : TranscriptionUpTo(r, "user", <<"a">>, MaxMixed)

SpecRestart == Init /\ [][NextRestart]_vars

\* ------------------------------------------- create-project with a status
\* addProject calls whose arguments carry no status, or one of their own.
ArgStatuses == {Undefined, ProjectStatus.Done, "Not Started"}

ProjectCalls ==
    {[name |-> "addProject", text |-> Acme, project_name |-> <<>>, status |-> st] :
        st \in ArgStatuses}

ProjectBatches == UNION {[1..n -> ProjectCalls] : n \in 1..MaxProjectCalls}

NextProject ==
    \/ StartListeningOnce
    \/ MicGranted(1)
    \/ OnOpen(1)
    \/ \E fcs \in ProjectBatches : ToolCallBatch(1, fcs, MaxProjectCalls)
    \/ \E b \in 1..MaxProjectCalls : BatchResumes(b)
    \/ \E id \in 1..MaxProjectCalls, outcome \in DbOutcomes : DbReturns(id, outcome)

SpecProject == Init /\ [][NextProject]_vars

\* ------------------------------------------------------ the audio codec
\* One sample s = sample / MaxSample of a one-sample frame goes through
\* createBlob (scale, store in an Int16Array, base64) and back through
\* decode and decodeAudioData.
Scale == 32768          \* data[i] * 32768 and dataInt16[...] / 32768.0
Int16Mod == 65536       \* an Int16Array slot holds its value modulo 2^16

\* the integer part of p / q, rounded toward zero (q > 0)
Trunc(p, q) == IF p >= 0 THEN p \div q ELSE -((-p) \div q)

\* storing the number p / q in an Int16Array slot: the integer part,
\* modulo 2^16, read as a signed value
ToInt16(p, q) ==
    LET u == Trunc(p, q) % Int16Mod
    IN IF u >= Scale THEN u - Int16Mod ELSE u

\* new Uint8Array(int16.buffer): the two bytes of one slot, low byte first
Uint8Of(v) ==
    LET u == v % Int16Mod
    IN <<u % 256, u \div 256>>

\* new Int16Array(data.buffer): the slot two bytes make
Int16Of(bytes) ==
    LET u == bytes[1] + 256 * bytes[2]
    IN IF u >= Scale THEN u - Int16Mod ELSE u

\* btoa of two bytes: three sextets (and one pad character)
encode(bytes) ==
    <<bytes[1] \div 4, (bytes[1] % 4) * 16 + bytes[2] \div 16, (bytes[2] % 16) * 4>>

\* atob of three sextets: two bytes
decode(b64) ==
    <<b64[1] * 4 + b64[2] \div 16, (b64[2] % 16) * 16 + b64[3] \div 4>>

\* the frame createBlob makes of the sample n / MaxSample
createBlob(n) == encode(Uint8Of(ToInt16(n * Scale, MaxSample)))

\* the numerator, over 32768, of the value decodeAudioData writes
decodeAudioData(bytes) == Int16Of(bytes)

TakeSample(n) ==
    /\ codecPc = "idle"
    /\ sample' = n
    /\ codecPc' = "sample"
    /\ UNCHANGED <<compVars, ctxVars, int16, base64, channelData, conversation, startPc,
                   closureVars, audioVars, toolVars, countVars>>

CreateBlob ==
    /\ codecPc = "sample"
    /\ int16' = ToInt16(sample * Scale, MaxSample)
    /\ base64' = createBlob(sample)
    /\ codecPc' = "encoded"
    /\ UNCHANGED <<compVars, ctxVars, sample, channelData, conversation, startPc,
                   closureVars, audioVars, toolVars, countVars>>

DecodeAudioData ==
    /\ codecPc = "encoded"
    /\ channelData' = decodeAudioData(decode(base64))
    /\ codecPc' = "decoded"
    /\ UNCHANGED <<compVars, ctxVars, sample, int16, base64, conversation, startPc,
                   closureVars, audioVars, toolVars, countVars>>

NextCodec ==
    \/ \E n \in -MaxSample..MaxSample : TakeSample(n)
    \/ CreateBlob
    \/ DecodeAudioData

SpecCodec == Init /\ [][NextCodec]_vars

\* ================================================================ claims
\* Run r is the only startListening invocation in play: none was made after
\* it, and every earlier one has returned and holds no stream or session.
OnlyRun(r) ==
    \A q \in Runs \ {r} :
        /\ q > r => startPc[q] = "idle"
        /\ q < r => /\ startPc[q] = "returned"
                    /\ session[q] \in {"none", "closed"}
                    /\ stream[q] # "live"

CaptureLoopRunning == \E q \in Runs : processor[q] = "connected"

\* C3: if the component is stopped (isListening is false again) while run r is
\* suspended on getUserMedia, then when getUserMedia resolves the component is in
\* a clean Idle state: not listening, no microphone stream held, no session
\* opened or left open, no capture loop.
C3_StopDuringMicPermission ==
    [][\A r \in Runs :
         (startPc[r] = "getUserMedia" /\ ~isListening /\ startPc'[r] = "returned")
         => /\ ~isListening'
            /\ streamRef' = Null
            /\ stream'[r] # "live"
            /\ sessionPromise' = Null
            /\ session'[r] \notin {"connecting", "open"}
            /\ ~CaptureLoopRunning']_vars

\* C4: at most one remote session is open at any time, and a session that is
\* replaced in sessionPromise has been closed first.
C4_AtMostOneActiveSession ==
    [][/\ Cardinality({r \in Runs : session'[r] = "open"}) <= 1
       /\ (sessionPromise # Null /\ sessionPromise' \notin {Null, sessionPromise})
          => session[sessionPromise] \in {"closing", "closed"}]_vars

C6_StopIdempotent ==
    LET once == stopListening(Comp) IN stopListening(once) = once

\* a state in which stopListening has work to do on a session, a stream, the
\* capture nodes and the listening flag
C6_Witness ==
    /\ isListening
    /\ sessionPromise # Null
    /\ streamRef # Null
    /\ audioProcessorRef # Null
    /\ stopListening(Comp) # Comp

\* The component is stopped: not listening, no start in progress, nothing held.
Stopped ==
    /\ ~isListening
    /\ sessionPromise = Null
    /\ streamRef = Null
    /\ \A r \in Runs : startPc[r] \in {"idle", "returned"}

\* C7: while the component is stopped (stopListening has run and no session
\* was started since) the active source set is empty and no source is playing.
C7_NoPlaybackAfterStop ==
    Stopped => /\ sources = {}
               /\ \A k \in DOMAIN playlist : playlist[k].state # "playing"

\* C8: every buffer is started no earlier than the audio clock's time at its
\* source.start() call, and no earlier than the start of the buffer scheduled
\* before it plus that buffer's duration.
C8_NoOverlapNoRetroactive ==
    \A k \in DOMAIN playlist :
        /\ playlist[k].start >= playlist[k].at
        /\ k > 1 => playlist[k].start >= playlist[k - 1].start + playlist[k - 1].dur

\* The deltas of one speaker applied one after the other to a transcript.
RECURSIVE applyDeltas(_, _, _)
applyDeltas(t, speaker, ds) ==
    IF ds = <<>> THEN t
    ELSE applyDeltas(onTranscription(t, speaker, ds[1]), speaker, Tail(ds))

RECURSIVE Concat(_)
Concat(ds) == IF ds = <<>> THEN <<>> ELSE ds[1] \o Concat(Tail(ds))

MaxSeq == 3
DeltaSeqs == UNION {[1..n -> Deltas] : n \in 1..MaxSeq}

Accumulated(t, speaker) == IF speaker = "user" THEN t.input ELSE t.output

\* A sequence of deltas of speaker p starts here: the session has just started,
\* a turn-complete signal was the last boundary, or the trailing Turn belongs to
\* another speaker.
SequenceStarts(r, p) ==
    \/ Accumulated(Transcript(r), p) = <<>>
    \/ conversation = <<>>
    \/ Last(conversation).speaker # p

\* C9: deltas d1..dn of one speaker received with no turn-complete signal and
\* no Turn of another speaker in between leave exactly one Turn for the
\* sequence: the trailing Turn, of that speaker, whose text is d1+...+dn; the
\* deltas after the first add no Turn.
C9_DeltasMergeIntoOneTurn ==
    \A r \in Runs, p \in Speakers, ds \in DeltaSeqs :
        (Delivering(r) /\ SequenceStarts(r, p))
        => LET first == onTranscription(Transcript(r), p, ds[1])
               final == applyDeltas(Transcript(r), p, ds)
           IN /\ Last(final.conversation) = [speaker |-> p, text |-> Concat(ds)]
              /\ Len(final.conversation) = Len(first.conversation)
              /\ Len(first.conversation) \in {Len(conversation), Len(conversation) + 1}
              /\ \A i \in 1..(Len(final.conversation) - 1) :
                    final.conversation[i] = first.conversation[i]

\* two deltas of one speaker have been merged into the one Turn of the transcript
C9_Witness ==
    /\ deltaCount = 2
    /\ turnCompleteCount = 0
    /\ Len(conversation) = 1
    /\ conversation[1] = [speaker |-> "user", text |-> <<"a", "b">>]

\* Number of sendToolResponse calls carrying the id of call id.
Responses(id) == Cardinality({k \in DOMAIN toolResponses : toolResponses[k].id = id})

\* C1: every function call delivered in a tool-call batch gets exactly one
\* sendToolResponse carrying its id: never more than one at any time, and
\* exactly one once the onmessage handler of its batch and its handleToolCall
\* have finished, whatever the state of the session when the batch arrived.
C1_ExactlyOneResponse ==
    \A id \in DOMAIN calls :
        /\ Responses(id) <= 1
        /\ calls[id].pc \in {"done", "dropped"} => Responses(id) = 1

\* The system Turns handleToolCall shows for a call: the line it starts with
\* and the line with the outcome.
ExecutingTurn(id) ==
    [speaker |-> "system", text |-> <<"Executing: ", calls[id].name, "...">>]

\* C2 as the specification states it: a call handled by handleToolCall has had
\* exactly one system Turn appended when the handler has finished.
C2_ExactlyOneSystemTurn ==
    \A id \in DOMAIN calls : calls[id].pc = "done" => calls[id].turns = 1

\* C2, amended: handleToolCall appends exactly two system Turns for a call, on
\* the success path and on every failure path alike: the "Executing" line before
\* its first await (one Turn while the database call is pending) and the outcome
\* line when it finishes; a call of a dropped batch has none.
C2_TwoSystemTurns ==
    \A id \in DOMAIN calls :
        /\ calls[id].pc = "done" => calls[id].turns = 2
        /\ calls[id].pc \in {"insert", "selectProject", "selectSubtasks", "insertSubtask"}
           => calls[id].turns = 1
        /\ calls[id].pc \in {"delivered", "dropped"} => calls[id].turns = 0

\* a call has finished on a failure path and the transcript shows its two
\* system Turns, the "Executing" line and the outcome
C2_Witness ==
    \E id \in DOMAIN calls :
        /\ calls[id].pc = "done"
        /\ calls[id].turns = 2
        /\ Len(conversation) = 2
        /\ conversation[1] = ExecutingTurn(id)
        /\ conversation[2].speaker = "system"
        /\ conversation[2].text[1] \in {"Error: ", "Could not find project "}
        /\ Responses(id) = 1

\* C10: after a turn-complete signal (the speaker's accumulator is empty
\* again), the next delta of a speaker who already has a Turn creates a new Turn
\* and leaves the Turns before it, that speaker's trailing Turn included, as
\* they were.
C10_NewTurnAfterTurnComplete ==
    [][\A r \in Runs, p \in Speakers :
         (/\ turnCompleteCount > 0
          /\ Accumulated(Transcript(r), p) = <<>>
          /\ \E i \in DOMAIN conversation : conversation[i].speaker = p
          /\ deltaCount' = deltaCount + 1
          /\ Accumulated(Transcript(r), p)' # <<>>)
         => /\ Len(conversation') = Len(conversation) + 1
            /\ SubSeq(conversation', 1, Len(conversation)) = conversation
            /\ Last(conversation').speaker = p]_vars

\* The outcome string sent back for call id (the call has been answered).
ResultOf(id) ==
    toolResponses[CHOOSE k \in DOMAIN toolResponses : toolResponses[k].id = id].result

\* The awaited insert of call id returns in this step and no row is stored.
InsertFails(id) ==
    /\ id \in DOMAIN calls
    /\ calls[id].pc \in {"insert", "insertSubtask"}
    /\ calls'[id].pc = "done"
    /\ projects' = projects
    /\ subtasks' = subtasks
    /\ inserts' = inserts

\* C11: when the insert of an intent stores nothing (the database returns an
\* error result, or the call throws), the outcome sent as the tool-result reply
\* and shown as the system Turn is a failure string carrying the reason, never
\* a success message.
C11_RejectedInsertReportsFailure ==
    [][\A id \in 1..MaxCalls :
         InsertFails(id)
         => /\ Last(toolResponses').result[1] = "Error: "
            /\ Last(conversation').text = Last(toolResponses').result]_vars

\* The projects whose name matches the project_name of call id.
Matching(id) ==
    {i \in DOMAIN projects : ilike(projects[i].name, calls[id].project_name)}

NotFoundText(id) == <<"Could not find project ">> \o Quoted(calls[id].project_name) \o <<".">>

\* The select of the project of create-task call id returns a result (it does
\* not throw) in this step.
ProjectSelectReturns(id) ==
    /\ id \in DOMAIN calls
    /\ calls[id].pc = "selectProject"
    /\ \E outcome \in {"ok", "rejected"} : DbReturns(id, outcome)

\* C12: when the project name of a create-task intent matches no project, the
\* handler ends with the project-not-found outcome as its one tool-result reply
\* and as the system Turn, inserts no subtask, and leaves the component as it
\* was: still listening, the session neither closed nor dereferenced.
C12_ProjectNotFound ==
    [][\A id \in 1..MaxCalls :
         (ProjectSelectReturns(id) /\ Matching(id) = {})
         => /\ calls'[id].pc = "done"
            /\ Last(toolResponses') = [session |-> calls[id].session, id |-> id,
                                       result |-> NotFoundText(id)]
            /\ Len(toolResponses') = Len(toolResponses) + 1
            /\ Responses(id) = 0
            /\ Last(conversation') = [speaker |-> "system", text |-> NotFoundText(id)]
            /\ subtasks' = subtasks
            /\ projects' = projects
            /\ inserts' = inserts
            /\ UNCHANGED compVars]_vars

\* a create-task call for a project that does not exist has been answered with
\* the not-found outcome while the session is open and listening
C12_Witness ==
    \E id \in DOMAIN calls :
        /\ calls[id].pc = "done"
        /\ calls[id].name = "addTodo"
        /\ Matching(id) = {}
        /\ Responses(id) = 1
        /\ ResultOf(id) = NotFoundText(id)
        /\ subtasks = <<>>
        /\ isListening
        /\ sessionPromise # Null
        /\ session[sessionPromise] = "open"

\* text contains part: the characters of part occur in text, in a row
Contains(text, part) ==
    \E i \in 0..(Len(text) - Len(part)) : SubSeq(text, i + 1, i + Len(part)) = part

\* C13: a create-task intent {text: "Draft", project_name: "nova"} against a
\* store holding the one project {id: 1, name: "Nova Launch"} and no subtask
\* inserts exactly the subtask {name: "Draft", project_id: 1, position: 0,
\* status: "Not Started"}, and its outcome text contains the task text and the
\* resolved project's name "Nova Launch".
C13_CreateTaskScenario ==
    [][\A id \in 1..MaxCalls :
         (/\ id \in DOMAIN calls
          /\ calls[id].pc = "insertSubtask"
          /\ calls[id].text = DraftProposal
          /\ calls[id].project_name = Nova
          /\ projects = InitialProjects
          /\ subtasks = <<>>
          /\ DbReturns(id, "ok"))
         => /\ subtasks' = <<[name |-> DraftProposal, status |-> "Not Started",
                              project_id |-> InitialProjects[1].id, position |-> 0]>>
            /\ Contains(Last(toolResponses').result, DraftProposal)
            /\ Contains(Last(toolResponses').result, NovaLaunch)]_vars

\* The session call id answers on has been closed, or its teardown has begun.
TornDown(id) ==
    /\ calls[id].session # Null
    /\ \/ session[calls[id].session] \in {"closing", "closed"}
       \/ sessionPromise # calls[id].session

\* C14: a remote close event always runs the teardown, whatever calls are in
\* flight (afterwards the component is not listening and holds no session and
\* no stream), and a call whose database mutation returns after the teardown of
\* its session has begun is discarded: no sendToolResponse and no system Turn.
C14_ResultDiscardedAfterTeardown ==
    [][/\ \A r \in Runs :
            (session[r] # "closed" /\ session'[r] = "closed")
            => /\ ~isListening'
               /\ sessionPromise' = Null
               /\ streamRef' = Null
               /\ audioProcessorRef' = Null
       /\ \A id \in 1..MaxCalls :
            (/\ id \in DOMAIN calls
             /\ calls[id].pc \in {"insert", "selectProject", "selectSubtasks", "insertSubtask"}
             /\ TornDown(id)
             /\ \E outcome \in DbOutcomes : DbReturns(id, outcome))
            => /\ toolResponses' = toolResponses
               /\ conversation' = conversation]_vars

\* Run r's start fails in this step: the audio contexts throw, resume() or
\* getUserMedia rejects, or the connection fails before it opened.
StartFails(r) ==
    \/ startPc[r] = "idle" /\ startPc'[r] = "returned"
    \/ AudioFailed(r)
    \/ MicDenied(r)
    \/ session[r] = "connecting" /\ OnError(r)

FailureStatus == {"Audio Error", "Microphone blocked", "Connection Error"}

\* C15: when the start of run r fails, the step sets a failure status, appends
\* a system Turn describing the failure, leaves the component Idle (not
\* listening, no stream held, no session referenced) and starts no other run.
C15_StartFailureAborts ==
    [][\A r \in Runs :
         StartFails(r)
         => /\ statusMessage' \in FailureStatus
            /\ conversation' # <<>>
            /\ Last(conversation').speaker = "system"
            /\ ~isListening'
            /\ streamRef' = Null
            /\ sessionPromise' = Null
            /\ \A q \in Runs \ {r} : startPc'[q] = startPc[q]]_vars

\* The outcome strings of the intent-level failures: project not found, a
\* mutation that throws, an unknown intent name.
IsFailure(result) == result[1] \in {"Could not find project ", "Error: ", "Function "}

\* handleToolCall returns for call id in this step, with a failure outcome.
ReturnsWithFailure(id) ==
    /\ id \in DOMAIN calls'
    /\ calls'[id].pc = "done"
    /\ id \in DOMAIN calls => calls[id].pc # "done"
    /\ \E k \in DOMAIN toolResponses' :
          /\ k > Len(toolResponses)
          /\ toolResponses'[k].id = id
          /\ IsFailure(toolResponses'[k].result)

\* C16: an intent-level failure does not terminate the session: the step in
\* which handleToolCall returns with a failure outcome leaves isListening,
\* sessionPromise, the microphone stream, the capture nodes and the session as
\* they were, so a session that was delivering messages still delivers them.
C16_FailureKeepsSession ==
    [][\A id \in 1..MaxCalls :
         ReturnsWithFailure(id)
         => /\ isListening' = isListening
            /\ sessionPromise' = sessionPromise
            /\ streamRef' = streamRef
            /\ stream' = stream
            /\ session' = session
            /\ closeCalls' = closeCalls
            /\ audioProcessorRef' = audioProcessorRef
            /\ processor' = processor
            /\ \A r \in Runs : Delivering(r) => Delivering(r)']_vars

\* a call has failed with its mutation throwing, and the component is still
\* listening on its open session with the microphone live
C16_Witness ==
    \E id \in DOMAIN calls :
        /\ calls[id].pc = "done"
        /\ Responses(id) = 1
        /\ ResultOf(id)[1] = "Error: "
        /\ isListening
        /\ sessionPromise = calls[id].session
        /\ session[sessionPromise] = "open"
        /\ stream[streamRef] = "live"
        /\ Delivering(sessionPromise)

\* The intents the component declares to the remote model.
DeclaredIntents == {"addProject", "addSkill", "addTransaction", "addTodo"}

UnknownText(id) == <<"Function ", calls[id].name, " not found.">>

\* handleToolCall is entered in this step for call id, whose name is not declared.
UnknownHandled(id) ==
    /\ id \in DOMAIN calls
    /\ calls[id].name \notin DeclaredIntents
    /\ calls[id].pc = "delivered"
    /\ calls'[id].pc \notin {"delivered", "dropped"}

\* C17: a call whose name is not a declared intent is answered in the step
\* that handles it, without a database call: the handler is finished, the store
\* is untouched, the one tool-result reply carries the "not found" outcome and
\* the outcome is appended as a system Turn.
C17_UnknownIntent ==
    [][\A id \in 1..MaxCalls :
         UnknownHandled(id)
         => /\ calls'[id].pc = "done"
            /\ projects' = projects
            /\ subtasks' = subtasks
            /\ inserts' = inserts
            /\ Responses(id) = 0
            /\ Cardinality({k \in DOMAIN toolResponses' :
                              toolResponses'[k].id = id}) = 1
            /\ \E k \in DOMAIN toolResponses' :
                  toolResponses'[k] = [session |-> calls'[id].session, id |-> id,
                                       result |-> UnknownText(id)]
            /\ \E k \in DOMAIN conversation' :
                  /\ k > Len(conversation)
                  /\ conversation'[k] = [speaker |-> "system", text |-> UnknownText(id)]]_vars

\* an undeclared intent has been answered "not found"; the store is as it was
C17_Witness ==
    \E id \in DOMAIN calls :
        /\ calls[id].name = "removeProject"
        /\ calls[id].pc = "done"
        /\ Responses(id) = 1
        /\ ResultOf(id) = UnknownText(id)
        /\ Last(conversation).text = UnknownText(id)
        /\ projects = InitialProjects
        /\ subtasks = <<>>
        /\ inserts = <<>>

\* C19: no audio frame is sent after stopListening has begun: every
\* sendRealtimeInput call is made on a session that has not been closed, while
\* the component is listening; a frame the capture loop produces after the stop
\* is dropped.
C19_NoSendAfterStop ==
    \A k \in DOMAIN sends : ~sends[k].closed /\ sends[k].listening

\* C18: for every sample s in [-1, 1], endpoints included, the value decoded
\* from the frame createBlob makes of s is within one 16-bit quantization
\* step, 1 / 32768, of s.
C18_RoundTripWithinOneStep ==
    codecPc = "decoded" =>
        LET d == channelData * MaxSample - sample * Scale
        IN d <= MaxSample /\ -d <= MaxSample

\* A session is alive from live.connect until its onclose arrives.
Alive(r) == session[r] \in {"connecting", "open", "closing"}

\* C20: while a session is alive, no step lowers nextStartTime: neither a step
\* of an audio-frame handler nor a teardown interleaved with the handlers.
C20_CursorNeverDecreases ==
    [][(\E r \in Runs : Alive(r) /\ Alive(r)') => nextStartTime' >= nextStartTime]_vars

\* C21: a source joins the active set in the step that starts it and at no
\* other time; it leaves the set once, through its 'ended' event or through
\* the teardown's clear, and is never put back; no ended source is in the set;
\* and every source of the set leaves it eventually.
C21_SourceRemovedExactlyOnce ==
    /\ [][/\ \A k \in DOMAIN playlist' \ DOMAIN playlist : k \in sources'
          /\ \A k \in DOMAIN playlist :
                /\ k \notin sources => k \notin sources'
                /\ (k \in sources /\ k \notin sources')
                      => \/ playlist[k].state = "playing" /\ playlist'[k].state = "ended"
                         \/ playlist'[k].state = "stopped" /\ sources' = {}
                /\ playlist'[k].state = "ended" => k \notin sources']_vars
    /\ \A k \in 1..MaxFrames : (k \in sources) ~> (k \notin sources)

\* one source has left the set through its 'ended' event and another through
\* the teardown
C21_Witness ==
    \E k, j \in DOMAIN playlist :
        /\ playlist[k].state = "ended" /\ currentTime >= EndOf(playlist[k])
        /\ playlist[j].state = "stopped"
        /\ sources = {}

\* The Open state of session r: onopen has run, the capture loop is wired to
\* the microphone and the component refers to r's session, stream and nodes.
OpenState(r) ==
    /\ isListening
    /\ sessionPromise = r /\ resolved[r] /\ session[r] = "open"
    /\ streamRef = r /\ stream[r] = "live"
    /\ audioProcessorRef = r /\ processor[r] = "connected"
    /\ mediaStreamSource = r /\ streamSource[r] = "connected"

\* C22: a stopListening that runs from the Open state leaves the processor and
\* the stream source disconnected, the microphone tracks stopped,
\* sessionPromise null with close() called on the old session, stop() called
\* on every source of the active set, the set empty, the cursor 0 and
\* isListening false, whether or not close() or a stop() throws.  The steps
\* of stopListening are those that clear isListening and set its status text.
C22_StopFromOpen ==
    [][\A r \in Runs :
          (OpenState(r) /\ ~isListening' /\ statusMessage' = "Click microphone to start")
             => /\ processor'[r] = "disconnected" /\ audioProcessorRef' = Null
                /\ streamSource'[r] = "disconnected" /\ mediaStreamSource' = Null
                /\ stream'[r] = "stopped" /\ trackStopCalls'[r] = trackStopCalls[r] + 1
                /\ streamRef' = Null
                /\ sessionPromise' = Null /\ closeCalls'[r] = closeCalls[r] + 1
                /\ \A k \in sources : playlist'[k].state \in {"stopped", "stopFailed"}
                /\ sources' = {}
                /\ nextStartTime' = 0]_vars

\* stopListening ran from the Open state with a source playing; close() threw
\* (the session is still open) and so did the source's stop()
C22_Witness ==
    \E r \in Runs, k \in DOMAIN playlist :
        /\ ~isListening /\ sessionPromise = Null
        /\ closeCalls[r] = 1 /\ session[r] = "open"
        /\ playlist[k].state = "stopFailed"
        /\ stream[r] = "stopped" /\ processor[r] = "disconnected"
        /\ sources = {} /\ nextStartTime = 0

\* C23: a transcript delta that arrives when the trailing Turn belongs to
\* another speaker pushes a Turn holding that delta's text alone, and the Turns
\* before it are left as they were: no text shown earlier is shown again.
C23_PushedTurnHoldsOnlyNewText ==
    [][(/\ deltaCount' = deltaCount + 1
        /\ conversation # <<>>
        /\ Last(conversation').speaker # Last(conversation).speaker)
          => /\ Len(conversation') = Len(conversation) + 1
             /\ SubSeq(conversation', 1, Len(conversation)) = conversation
             /\ Last(conversation').text \in Deltas]_vars

\* The positions of the subtasks of project pid in table t.
PositionsOf(t, pid) == {t[i].position : i \in {j \in DOMAIN t : t[j].project_id = pid}}

MaxOf(S) == CHOOSE m \in S : \A q \in S : q <= m

\* C24: the position create-task computes for the new subtask is the largest
\* position among the subtasks of the resolved project plus one, or 0 when
\* that project has no subtask, whatever the other projects' subtasks are;
\* and the subtask is inserted with that position.
C24_PositionIsMaxPlusOne ==
    [][\A id \in DOMAIN calls :
          /\ (calls[id].pc = "selectSubtasks" /\ calls'[id].pc = "insertSubtask")
                => calls'[id].position =
                      IF PositionsOf(subtasks, calls[id].projectId) = {} THEN 0
                      ELSE MaxOf(PositionsOf(subtasks, calls[id].projectId)) + 1
          /\ (calls[id].pc = "insertSubtask" /\ Len(subtasks') = Len(subtasks) + 1)
                => /\ Last(subtasks').position = calls[id].position
                   /\ Last(subtasks').project_id = calls[id].projectId]_vars

\* C25: no two subtasks of one project have the same position, and a subtask
\* is inserted at the largest position its project holds at that moment plus
\* one (at 0 when it holds none), also when the database round-trips of
\* several create-task calls overlap.
C25_PositionsDistinct ==
    /\ [](\A i, j \in DOMAIN subtasks :
             (i # j /\ subtasks[i].project_id = subtasks[j].project_id)
                => subtasks[i].position # subtasks[j].position)
    /\ [][Len(subtasks') = Len(subtasks) + 1
            => LET row == Last(subtasks')
                   held == PositionsOf(subtasks, row.project_id)
               IN row.position = IF held = {} THEN 0 ELSE MaxOf(held) + 1]_vars

\* C26: when the project name of a create-task call matches several projects
\* and the query for the project succeeds, the first match wins: the handler
\* goes on with the id of the first matching project and does not end with the
\* project-not-found outcome.
C26_FirstMatchWins ==
    [][\A id \in 1..MaxTodoCalls :
          (/\ id \in DOMAIN calls
           /\ calls[id].pc = "selectProject"
           /\ Cardinality(Matching(id)) >= 2
           /\ DbReturns(id, "ok"))
             => /\ calls'[id].pc = "selectSubtasks"
                /\ calls'[id].projectId =
                      projects[CHOOSE i \in Matching(id) : \A j \in Matching(id) : i <= j].id
                /\ toolResponses' = toolResponses]_vars

\* The database call of function call id is pending.
Pending(id) ==
    calls[id].pc \in {"insert", "selectProject", "selectSubtasks", "insertSubtask"}

\* C27: while the database call of a function call is pending the session it
\* came from stays open, and a transcript delta, an audio frame, the decoded
\* buffer of a frame, a further tool-call batch and the return of another
\* call's database call can each be handled at once; handling them leaves the
\* pending call as it is, and the steps of a call's handler leave the session,
\* the capture loop and the playback alone.
C27_CallsDoNotBlockMessages ==
    /\ [](\A id \in DOMAIN calls :
            Pending(id)
               => /\ session[calls[id].session] = "open"
                  /\ deltaCount < MaxMixed
                        => ENABLED TranscriptionUpTo(calls[id].session, "user", <<"a">>, MaxMixed)
                  /\ Len(frames) < MaxMixed
                        => ENABLED AudioFrameUpTo(calls[id].session, MaxDur, MaxMixed)
                  /\ \A f \in DOMAIN frames : frames[f].pc = "decoding" => ENABLED DecodeDone(f)
                  /\ \A fcs \in MixedBatches :
                        Len(calls) + Len(fcs) <= MaxMixedCalls
                           => ENABLED ToolCallBatch(calls[id].session, fcs, MaxMixedCalls)
                  /\ \A b \in DOMAIN batches :
                        batches[b].pc = "awaitSession" => ENABLED BatchResumes(b)
                  /\ \A other \in DOMAIN calls :
                        Pending(other) => ENABLED DbReturns(other, "ok"))
    /\ [][\A id \in DOMAIN calls :
             /\ (Pending(id) /\ (deltaCount' # deltaCount \/ frames' # frames
                                 \/ Len(calls') # Len(calls)))
                   => calls'[id] = calls[id]
             /\ calls'[id] # calls[id] => UNCHANGED <<compVars, audioVars, closureVars>>]_vars

\* the first call's insert is pending; since its "Executing" line a delta of
\* the user was shown and a second batch was taken up, and a buffer has been
\* scheduled
C27_Witness ==
    /\ Len(calls) = 2 /\ Len(batches) = 2
    /\ Pending(1) /\ Pending(2)
    /\ Len(conversation) = 3
    /\ conversation[1] = ExecutingTurn(1)
    /\ conversation[2].speaker = "user"
    /\ conversation[3] = ExecutingTurn(2)
    /\ Len(playlist) = 1 /\ playlist[1].state = "playing"

\* Session q was stopped: stopListening has called close() on it, or has
\* queued the call on its promise.
WasStopped(q) == closeCalls[q] + closeQueued[q] > 0

\* C28: once session q was stopped and a later session r is the component's
\* current one, an event of q (its onopen, onerror or onclose callback) leaves
\* r alone: r's microphone stream, capture nodes, session and sessionPromise,
\* the listening flag and the playback state are unchanged by it.
C28_EarlierSessionEventsLeaveLater ==
    [][\A q, r \in Runs :
          (/\ q < r
           /\ WasStopped(q)
           /\ sessionPromise = r
           /\ OnOpen(q) \/ OnError(q) \/ OnClose(q))
             => /\ UNCHANGED <<sessionPromise, streamRef, mediaStreamSource, audioProcessorRef,
                               isListening, nextStartTime, sources>>
                /\ stream'[r] = stream[r]
                /\ processor'[r] = processor[r]
                /\ streamSource'[r] = streamSource[r]
                /\ session'[r] = session[r]
                /\ closeCalls'[r] = closeCalls[r]
                /\ closeQueued'[r] = closeQueued[r]]_vars

\* The session started last.
LatestRun == CHOOSE r \in Runs : startPc[r] # "idle" /\ \A q \in Runs : q > r => startPc[q] = "idle"

\* C29: the step in which startListening passes its guards empties the
\* transcript, and from then on no callback of an earlier session and no
\* function call taken up by an earlier session adds or changes a Turn.
C29_TranscriptOfNewSessionOnly ==
    [][/\ \A r \in Runs : (startPc[r] = "idle" /\ startPc'[r] # "idle") => conversation' = <<>>
       /\ \A q \in Runs :
             (/\ \E r \in Runs : startPc[r] # "idle"
              /\ q < LatestRun
              /\ \/ \E id \in DOMAIN calls, outcome \in DbOutcomes :
                       calls[id].session = q /\ DbReturns(id, outcome)
                 \/ \E b \in DOMAIN batches : batches[b].run = q /\ BatchResumes(b)
                 \/ TranscriptionUpTo(q, "user", <<"a">>, MaxMixed))
                => conversation' = conversation]_vars


====
